---- MODULE Spec2Model ----
(***************************************************************************)
(* Model of packages/jest-diff/src/diffLines.ts: the whitespace            *)
(* highlighters, the three range formatters, the expanded and the windowed *)
(* assembler and the exported entry point.                                 *)
(*                                                                         *)
(* A text is a sequence of one-character strings, a line likewise; indices *)
(* into line arrays are 0-based as in the source (items[i + 1] in TLA+).   *)
(***************************************************************************)
EXTENDS Integers, Sequences, FiniteSets, TLC

\* ------------------------------------------------------------------ bounds
\* longest edit script (common / delete / insert steps) the inputs are built from
MaxScript == 6
\* largest options.contextLines
MaxContext == 2
\* longest common gap between two single-line changes in the gap family
MaxGap == 10
\* longest line handed to the highlighters
MaxLineLen == 6

VARIABLES
  pc,            \* position of the call: "call", "diff", "done"
  a, b,          \* the texts compared
  options,       \* [expand, contextLines, aIndicator, bIndicator, commonIndicator]
  original,      \* [given, a, b]: the optional indentation-preserving pair
  aLinesUn, bLinesUn, aLinesIn, bLinesIn,  \* arrays [ref, items]
  pending,       \* common runs the oracle has still to report
  nCalls,        \* number of callbacks the oracle has made
  array,         \* output lines
  iPatchMark, isAtEnd,
  aStart, aEnd, bStart, bEnd,
  changeCounts,
  threw,         \* a TypeError escaped (read of a missing array element)
  result,        \* the returned value
  hlLine, hlMode, hlOut   \* one application of a highlighter

vars == <<pc, a, b, options, original, aLinesUn, bLinesUn, aLinesIn, bLinesIn,
          pending, nCalls, array, iPatchMark, isAtEnd, aStart, aEnd, bStart,
          bEnd, changeCounts, threw, result, hlLine, hlMode, hlOut>>

callVars == <<pc, a, b, options, original, aLinesUn, bLinesUn, aLinesIn,
              bLinesIn, pending, nCalls, array, iPatchMark, isAtEnd, aStart,
              aEnd, bStart, bEnd, changeCounts, threw, result>>

hlVars == <<hlLine, hlMode, hlOut>>

\* ------------------------------------------------------------ small helpers
Min(x, y) == IF x < y THEN x ELSE y

Max(x, y) == IF x < y THEN y ELSE x

\* JavaScript's \s, on the characters the model uses
IsSpace(ch) == ch \in {" ", "\t"}

\* String.prototype.slice(0, end)
Slice0(s, end) ==
  LET e == IF end < 0 THEN Max(Len(s) + end, 0) ELSE Min(end, Len(s))
  IN  SubSeq(s, 1, e)

\* String.prototype.split('\n')
RECURSIVE Split(_)
Split(text) ==
  LET nl == {i \in 1..Len(text) : text[i] = "\n"}
  IN  IF nl = {} THEN <<text>>
      ELSE LET i == CHOOSE k \in nl : \A m \in nl : k <= m
           IN  <<SubSeq(text, 1, i - 1)>> \o Split(SubSeq(text, i + 1, Len(text)))

\* ------------------------------------------------------------ highlighters
\* a chalk background decoration applied to a string
Decorate(bgColor, s) == <<bgColor>> \o s \o <<"/bg">>

\* line.replace(/\s+$/, bgColor('$&'))
highlightTrailingSpaces(line, bgColor) ==
  LET starts == {i \in 1..Len(line) : \A k \in i..Len(line) : IsSpace(line[k])}
  IN  IF starts = {} THEN line
      ELSE LET i == CHOOSE k \in starts : \A m \in starts : k <= m
           IN  SubSeq(line, 1, i - 1) \o Decorate(bgColor, SubSeq(line, i, Len(line)))

\* the last leading whitespace character is decorated whatever the count
ReplaceLastLeading(s, bgColor) ==
  LET ns == {n \in 1..Len(s) :
               /\ n + 1 <= Len(s)
               /\ \A k \in 1..n : IsSpace(s[k])
               /\ ~IsSpace(s[n + 1])}
  IN  IF ns = {} THEN s
      ELSE LET n == CHOOSE q \in ns : TRUE
           IN  SubSeq(s, 1, n - 1) \o Decorate(bgColor, <<s[n]>>) \o SubSeq(s, n + 1, Len(s))

\* s.replace(/^(\s\s)*(\s)(?=[^\s])/, '$1' + bgColor('$2')): p pairs, then one
\* whitespace character, then a character that is not whitespace. The group
\* (\s\s)* is greedy and $1 is the text of its LAST repetition only.
ReplaceOddLeading(s, bgColor) ==
  LET ps == {p \in 0..Len(s) :
               /\ 2 * p + 2 <= Len(s)
               /\ \A k \in 1..(2 * p + 1) : IsSpace(s[k])
               /\ ~IsSpace(s[2 * p + 2])}
  IN  IF ps = {} THEN s
      ELSE LET p  == CHOOSE q \in ps : \A r \in ps : r <= q
               g1 == IF p = 0 THEN <<>> ELSE SubSeq(s, 2 * p - 1, 2 * p)
               g2 == <<s[2 * p + 1]>>
           IN  g1 \o Decorate(bgColor, g2) \o SubSeq(s, 2 * p + 2, Len(s))

highlightLeadingTrailingSpaces(line, bgColor) ==
  ReplaceOddLeading(highlightTrailingSpaces(line, bgColor), bgColor)

\* the two highlighters exchanged
getHighlightSpacesSwapped(bothEdges) ==
  IF bothEdges THEN "highlightTrailingSpaces" ELSE "highlightLeadingTrailingSpaces"

\* the name of the highlighter getHighlightSpaces returns
getHighlightSpaces(bothEdges) ==
  IF bothEdges THEN "highlightLeadingTrailingSpaces" ELSE "highlightTrailingSpaces"

\* application of the highlighter named h
ApplyHighlight(h, line, bgColor) ==
  IF h = "highlightLeadingTrailingSpaces"
  THEN highlightLeadingTrailingSpaces(line, bgColor)
  ELSE highlightTrailingSpaces(line, bgColor)

\* -------------------------------------------------------- range formatters
\* array[i] is defined (anything else reads undefined, whose .length or
\* .slice raises a TypeError)
HasIndex(arr, i) == 0 <= i /\ i < Len(arr.items)

\* put(aColor(aIndicator + ' ' + indentation + highlightSpaces(aLineUn, bgInverse)))
DeleteLine(aIndex, aLinesUn_, aLinesIn_, opts) ==
  LET highlightSpaces == getHighlightSpaces(aLinesUn_.ref # aLinesIn_.ref)
      aLineUn == aLinesUn_.items[aIndex + 1]
      aLineIn == aLinesIn_.items[aIndex + 1]
      indentation == Slice0(aLineIn, Len(aLineIn) - Len(aLineUn))
  IN  [type |-> "delete", aIndex |-> aIndex, bIndex |-> -1, color |-> "aColor",
       highlight |-> highlightSpaces,
       text |-> <<opts.aIndicator, " ">> \o indentation
                  \o ApplyHighlight(highlightSpaces, aLineUn, "bgInverse")]

\* the result of a formatter: the lines it put, and whether it threw
RECURSIVE formatDelete(_, _, _, _, _)
formatDelete(aStart_, aEnd_, aLinesUn_, aLinesIn_, opts) ==
  IF aStart_ = aEnd_ THEN [lines |-> <<>>, threw |-> FALSE]
  ELSE IF ~HasIndex(aLinesUn_, aStart_) \/ ~HasIndex(aLinesIn_, aStart_)
  THEN [lines |-> <<>>, threw |-> TRUE]
  ELSE LET rest == formatDelete(aStart_ + 1, aEnd_, aLinesUn_, aLinesIn_, opts)
       IN  [lines |-> <<DeleteLine(aStart_, aLinesUn_, aLinesIn_, opts)>> \o rest.lines,
            threw |-> rest.threw]

InsertLine(bIndex, bLinesUn_, bLinesIn_, opts) ==
  LET highlightSpaces == getHighlightSpaces(bLinesUn_.ref # bLinesIn_.ref)
      bLineUn == bLinesUn_.items[bIndex + 1]
      bLineIn == bLinesIn_.items[bIndex + 1]
      indentation == Slice0(bLineIn, Len(bLineIn) - Len(bLineUn))
  IN  [type |-> "insert", aIndex |-> -1, bIndex |-> bIndex, color |-> "bColor",
       highlight |-> highlightSpaces,
       text |-> <<opts.bIndicator, " ">> \o indentation
                  \o ApplyHighlight(highlightSpaces, bLineUn, "bgInverse")]

RECURSIVE formatInsert(_, _, _, _, _)
formatInsert(bStart_, bEnd_, bLinesUn_, bLinesIn_, opts) ==
  IF bStart_ = bEnd_ THEN [lines |-> <<>>, threw |-> FALSE]
  ELSE IF ~HasIndex(bLinesUn_, bStart_) \/ ~HasIndex(bLinesIn_, bStart_)
  THEN [lines |-> <<>>, threw |-> TRUE]
  ELSE LET rest == formatInsert(bStart_ + 1, bEnd_, bLinesUn_, bLinesIn_, opts)
       IN  [lines |-> <<InsertLine(bStart_, bLinesUn_, bLinesIn_, opts)>> \o rest.lines,
            threw |-> rest.threw]

CommonLine(aCommon, bCommon, aLinesIn_, bLinesUn_, bLinesIn_, opts) ==
  LET highlightSpaces == getHighlightSpaces(bLinesUn_.ref # bLinesIn_.ref)
      bLineUn == bLinesUn_.items[bCommon + 1]
      bLineIn == bLinesIn_.items[bCommon + 1]
      bLineInLength == Len(bLineIn)
      indentation == Slice0(bLineIn, bLineInLength - Len(bLineUn))
      hasSameIndentation == Len(aLinesIn_.items[aCommon + 1]) = bLineInLength
      fg == IF hasSameIndentation THEN "commonColor" ELSE "fgIndent"
      bg == IF hasSameIndentation THEN "bgCommon" ELSE "bgInverse"
  IN  [type |-> "common", aIndex |-> aCommon, bIndex |-> bCommon, color |-> fg,
       highlight |-> highlightSpaces,
       text |-> <<opts.commonIndicator, " ">> \o indentation
                  \o ApplyHighlight(highlightSpaces, bLineUn, bg)]

RECURSIVE formatCommon(_, _, _, _, _, _, _)
formatCommon(nCommon, aCommon, bCommon, aLinesIn_, bLinesUn_, bLinesIn_, opts) ==
  IF nCommon = 0 THEN [lines |-> <<>>, threw |-> FALSE]
  ELSE IF \/ ~HasIndex(bLinesUn_, bCommon) \/ ~HasIndex(bLinesIn_, bCommon)
          \/ ~HasIndex(aLinesIn_, aCommon)
  THEN [lines |-> <<>>, threw |-> TRUE]
  ELSE LET rest == formatCommon(nCommon - 1, aCommon + 1, bCommon + 1,
                                aLinesIn_, bLinesUn_, bLinesIn_, opts)
       IN  [lines |-> <<CommonLine(aCommon, bCommon, aLinesIn_, bLinesUn_, bLinesIn_, opts)>>
                        \o rest.lines,
            threw |-> rest.threw]

\* ----------------------------------------------------- external collaborators
\* createPatchMark(aStart, aEnd, bStart, bEnd, options) of printDiffs
createPatchMark(aStart_, aEnd_, bStart_, bEnd_) ==
  [type |-> "patch", aStart |-> aStart_, aEnd |-> aEnd_,
   bStart |-> bStart_, bEnd |-> bEnd_]

\* the '' that holds the place of a patch mark
Placeholder == [type |-> "placeholder"]

\* NO_DIFF_MESSAGE of constants
NO_DIFF_MESSAGE == [type |-> "NO_DIFF_MESSAGE"]

\* printAnnotation(options, changeCounts) + array.join('\n')
Rendered(counts, lines) == [type |-> "diff", annotation |-> counts, lines |-> lines]

\* isCommon of both assemblers
isCommon(A, B, aIndex, bIndex) == A[aIndex + 1] = B[bIndex + 1]

\* diff-sequences: the common runs of a longest common subsequence of the two
\* line arrays, maximal, in increasing order. T is the table of LCS lengths of
\* the suffixes: T[i + 1][j + 1] for A from i and B from j.
RECURSIVE LcsRow(_, _, _, _, _)
LcsRow(A, B, i, below, j) ==
  IF j = Len(B) THEN <<0>>
  ELSE LET rest == LcsRow(A, B, i, below, j + 1)
           cell == IF isCommon(A, B, i, j) THEN below[j + 2] + 1
                   ELSE Max(below[j + 1], rest[1])
       IN  <<cell>> \o rest

RECURSIVE LcsTable(_, _, _)
LcsTable(A, B, i) ==
  IF i = Len(A) THEN <<[j \in 1..(Len(B) + 1) |-> 0]>>
  ELSE LET rest == LcsTable(A, B, i + 1)
       IN  <<LcsRow(A, B, i, rest[1], 0)>> \o rest

\* the runs from (i, j) on; run is the run being extended ([nCommon |-> 0] if none)
RECURSIVE RunsFrom(_, _, _, _, _, _)
RunsFrom(A, B, T, i, j, run) ==
  LET closed == IF run.nCommon = 0 THEN <<>> ELSE <<run>>
  IN  IF i = Len(A) \/ j = Len(B) THEN closed
      ELSE IF isCommon(A, B, i, j)
      THEN RunsFrom(A, B, T, i + 1, j + 1,
                    IF run.nCommon = 0
                    THEN [nCommon |-> 1, aCommon |-> i, bCommon |-> j]
                    ELSE [run EXCEPT !.nCommon = @ + 1])
      ELSE closed \o (IF T[i + 2][j + 1] >= T[i + 1][j + 2]
                      THEN RunsFrom(A, B, T, i + 1, j, [nCommon |-> 0])
                      ELSE RunsFrom(A, B, T, i, j + 1, [nCommon |-> 0]))

CommonRuns(A, B) == RunsFrom(A, B, LcsTable(A, B, 0), 0, 0, [nCommon |-> 0])

\* ------------------------------------------------------------- assemblers
\* The variables an assembler's callbacks close over, as one record s; L holds
\* the four line arrays and the options.
Closure == [array |-> array, iPatchMark |-> iPatchMark, isAtEnd |-> isAtEnd,
            aStart |-> aStart, aEnd |-> aEnd, bStart |-> bStart, bEnd |-> bEnd,
            changeCounts |-> changeCounts, threw |-> threw]

Lines == [aLinesUn |-> aLinesUn, bLinesUn |-> bLinesUn,
          aLinesIn |-> aLinesIn, bLinesIn |-> bLinesIn, options |-> options]

\* put, for every line a formatter produced
Put(s, f) == [s EXCEPT !.array = @ \o f.lines, !.threw = f.threw]

\* diffExpand: the state before diff() is called
ExpandInit ==
  [array |-> <<>>, iPatchMark |-> 0, isAtEnd |-> FALSE,
   aStart |-> 0, aEnd |-> 0, bStart |-> 0, bEnd |-> 0,
   changeCounts |-> [a |-> 0, b |-> 0], threw |-> FALSE]

\* bStart is left at the start of the common run
ExpandFoundSubsequenceStaleB(s, L, nCommon, aCommon, bCommon) ==
  LET s1 == [s EXCEPT !.changeCounts = [a |-> @.a + (aCommon - s.aStart),
                                        b |-> @.b + (bCommon - s.bStart)]]
      s2 == Put(s1, formatDelete(s.aStart, aCommon, L.aLinesUn, L.aLinesIn, L.options))
      s3 == IF s2.threw THEN s2
            ELSE Put(s2, formatInsert(s.bStart, bCommon, L.bLinesUn, L.bLinesIn, L.options))
      s4 == IF s3.threw THEN s3
            ELSE Put(s3, formatCommon(nCommon, aCommon, bCommon,
                                      L.aLinesIn, L.bLinesUn, L.bLinesIn, L.options))
  IN  IF s4.threw THEN s4
      ELSE [s4 EXCEPT !.aStart = aCommon + nCommon, !.bStart = bCommon]

\* diffExpand's foundSubsequence
ExpandFoundSubsequence(s, L, nCommon, aCommon, bCommon) ==
  LET s1 == [s EXCEPT !.changeCounts = [a |-> @.a + (aCommon - s.aStart),
                                        b |-> @.b + (bCommon - s.bStart)]]
      s2 == Put(s1, formatDelete(s.aStart, aCommon, L.aLinesUn, L.aLinesIn, L.options))
      s3 == IF s2.threw THEN s2
            ELSE Put(s2, formatInsert(s.bStart, bCommon, L.bLinesUn, L.bLinesIn, L.options))
      s4 == IF s3.threw THEN s3
            ELSE Put(s3, formatCommon(nCommon, aCommon, bCommon,
                                      L.aLinesIn, L.bLinesUn, L.bLinesIn, L.options))
  IN  IF s4.threw THEN s4
      ELSE [s4 EXCEPT !.aStart = aCommon + nCommon, !.bStart = bCommon + nCommon]

\* diffExpand after diff() returned: the remaining change lines
ExpandRemaining(s, L) ==
  LET aLength == Len(L.aLinesUn.items)
      bLength == Len(L.bLinesUn.items)
      s1 == [s EXCEPT !.changeCounts = [a |-> @.a + (aLength - s.aStart),
                                        b |-> @.b + (bLength - s.bStart)]]
      s2 == Put(s1, formatDelete(s.aStart, aLength, L.aLinesUn, L.aLinesIn, L.options))
  IN  IF s2.threw THEN s2
      ELSE Put(s2, formatInsert(s.bStart, bLength, L.bLinesUn, L.bLinesIn, L.options))

\* diffNoExpand: the state before diff() is called
NoExpandInit ==
  [array |-> <<Placeholder>>, iPatchMark |-> 0, isAtEnd |-> FALSE,
   aStart |-> 0, aEnd |-> 0, bStart |-> 0, bEnd |-> 0,
   changeCounts |-> [a |-> 0, b |-> 0], threw |-> FALSE]

\* a patch begins contextLines lines before the end of the run, even when the
\* run is shorter than that
StartPatchUnclipped(s, L, nCommon, aEndCommon, bEndCommon) ==
  LET nLines == L.options.contextLines
      s1 == [s EXCEPT !.aStart = aEndCommon - nLines, !.bStart = bEndCommon - nLines]
      s2 == Put(s1, formatCommon(nLines, s1.aStart, s1.bStart,
                                 L.aLinesIn, L.bLinesUn, L.bLinesIn, L.options))
  IN  IF s2.threw THEN s2
      ELSE [s2 EXCEPT !.aEnd = aEndCommon, !.bEnd = bEndCommon]

\* a patch begins with the whole common run, whatever contextLines is
StartPatchWholeRun(s, L, nCommon, aEndCommon, bEndCommon) ==
  LET nLines == nCommon
      s1 == [s EXCEPT !.aStart = aEndCommon - nLines, !.bStart = bEndCommon - nLines]
      s2 == Put(s1, formatCommon(nLines, s1.aStart, s1.bStart,
                                 L.aLinesIn, L.bLinesUn, L.bLinesIn, L.options))
  IN  IF s2.threw THEN s2
      ELSE [s2 EXCEPT !.aEnd = aEndCommon, !.bEnd = bEndCommon]

\* a patch begins with the last nLines lines of the common run that ends at
\* (aEndCommon, bEndCommon): the first patch, and each patch that follows
StartPatch(s, L, nCommon, aEndCommon, bEndCommon) ==
  LET nContextLines == L.options.contextLines
      nLines == IF nContextLines < nCommon THEN nContextLines ELSE nCommon
      s1 == [s EXCEPT !.aStart = aEndCommon - nLines, !.bStart = bEndCommon - nLines]
      s2 == Put(s1, formatCommon(nLines, s1.aStart, s1.bStart,
                                 L.aLinesIn, L.bLinesUn, L.bLinesIn, L.options))
  IN  IF s2.threw THEN s2
      ELSE [s2 EXCEPT !.aEnd = aEndCommon, !.bEnd = bEndCommon]

\* the insert lines are formatted before the delete lines
PrecedingChangesInsertFirst(s, L, aStartCommon, bStartCommon) ==
  LET s1 == [s EXCEPT !.changeCounts = [a |-> @.a + (aStartCommon - s.aEnd),
                                        b |-> @.b + (bStartCommon - s.bEnd)]]
      s2 == Put(s1, formatInsert(s.bEnd, bStartCommon, L.bLinesUn, L.bLinesIn, L.options))
      s3 == IF s2.threw THEN s2
            ELSE Put(s2, formatDelete(s.aEnd, aStartCommon, L.aLinesUn, L.aLinesIn, L.options))
  IN  IF s3.threw THEN s3
      ELSE [s3 EXCEPT !.aEnd = aStartCommon, !.bEnd = bStartCommon]

\* the delete lines are formatted from the start of the patch
PrecedingChangesFromStart(s, L, aStartCommon, bStartCommon) ==
  LET s1 == [s EXCEPT !.changeCounts = [a |-> @.a + (aStartCommon - s.aEnd),
                                        b |-> @.b + (bStartCommon - s.bEnd)]]
      s2 == Put(s1, formatDelete(s.aStart, aStartCommon, L.aLinesUn, L.aLinesIn, L.options))
      s3 == IF s2.threw THEN s2
            ELSE Put(s2, formatInsert(s.bEnd, bStartCommon, L.bLinesUn, L.bLinesIn, L.options))
  IN  IF s3.threw THEN s3
      ELSE [s3 EXCEPT !.aEnd = aStartCommon, !.bEnd = bStartCommon]

\* format preceding change lines
PrecedingChanges(s, L, aStartCommon, bStartCommon) ==
  LET s1 == [s EXCEPT !.changeCounts = [a |-> @.a + (aStartCommon - s.aEnd),
                                        b |-> @.b + (bStartCommon - s.bEnd)]]
      s2 == Put(s1, formatDelete(s.aEnd, aStartCommon, L.aLinesUn, L.aLinesIn, L.options))
      s3 == IF s2.threw THEN s2
            ELSE Put(s2, formatInsert(s.bEnd, bStartCommon, L.bLinesUn, L.bLinesIn, L.options))
  IN  IF s3.threw THEN s3
      ELSE [s3 EXCEPT !.aEnd = aStartCommon, !.bEnd = bStartCommon]

\* the same bound for a run at the end as for one between changes
maxContextLinesAlways2(atEnd, nContextLines) == nContextLines + nContextLines

\* the number of lines of a common run the patch may include in full
maxContextLines(atEnd, nContextLines) ==
  IF atEnd THEN nContextLines ELSE nContextLines + nContextLines

\* the patch includes all lines in the common subsequence
IncludesAll(nCommon, atEnd, nContextLines) ==
  nCommon <= maxContextLines(atEnd, nContextLines)

\* the patch mark is created before the closing context lines are counted
EndPatchEarlyMark(s, L, nCommon, aEndCommon, bEndCommon) ==
  LET nContextLines == L.options.contextLines
      s1 == Put(s, formatCommon(nContextLines, s.aEnd, s.bEnd,
                                L.aLinesIn, L.bLinesUn, L.bLinesIn, L.options))
      s2 == [s1 EXCEPT !.array[s1.iPatchMark + 1] =
                          createPatchMark(s1.aStart, s1.aEnd, s1.bStart, s1.bEnd)]
      s3 == [s2 EXCEPT !.aEnd = @ + nContextLines, !.bEnd = @ + nContextLines]
      s4 == [s3 EXCEPT !.iPatchMark = Len(s3.array),
                       !.array = Append(@, Placeholder)]
  IN  IF s1.threw THEN s1
      ELSE IF s3.isAtEnd THEN s3
      ELSE StartPatch(s4, L, nCommon, aEndCommon, bEndCommon)

\* the next placeholder is appended but iPatchMark still names the old one
EndPatchStaleMark(s, L, nCommon, aEndCommon, bEndCommon) ==
  LET nContextLines == L.options.contextLines
      s1 == Put(s, formatCommon(nContextLines, s.aEnd, s.bEnd,
                                L.aLinesIn, L.bLinesUn, L.bLinesIn, L.options))
      s2 == [s1 EXCEPT !.aEnd = @ + nContextLines, !.bEnd = @ + nContextLines]
      s3 == [s2 EXCEPT !.array[s2.iPatchMark + 1] =
                          createPatchMark(s2.aStart, s2.aEnd, s2.bStart, s2.bEnd)]
      s4 == [s3 EXCEPT !.array = Append(@, Placeholder)]
  IN  IF s1.threw THEN s1
      ELSE IF s3.isAtEnd THEN s3
      ELSE StartPatch(s4, L, nCommon, aEndCommon, bEndCommon)

\* the patch ends because context is less than number of common lines
EndPatch(s, L, nCommon, aEndCommon, bEndCommon) ==
  LET nContextLines == L.options.contextLines
      s1 == Put(s, formatCommon(nContextLines, s.aEnd, s.bEnd,
                                L.aLinesIn, L.bLinesUn, L.bLinesIn, L.options))
      s2 == [s1 EXCEPT !.aEnd = @ + nContextLines, !.bEnd = @ + nContextLines]
      s3 == [s2 EXCEPT !.array[s2.iPatchMark + 1] =
                          createPatchMark(s2.aStart, s2.aEnd, s2.bStart, s2.bEnd)]
      s4 == [s3 EXCEPT !.iPatchMark = Len(s3.array),
                       !.array = Append(@, Placeholder)]
  IN  IF s1.threw THEN s1
      ELSE IF s3.isAtEnd THEN s3
      ELSE StartPatch(s4, L, nCommon, aEndCommon, bEndCommon)

\* diffNoExpand's foundSubsequence
NoExpandFoundSubsequence(s, L, nCommon, aStartCommon, bStartCommon) ==
  LET aLength == Len(L.aLinesUn.items)
      bLength == Len(L.bLinesUn.items)
      aEndCommon == aStartCommon + nCommon
      bEndCommon == bStartCommon + nCommon
      s0 == [s EXCEPT !.isAtEnd = (aEndCommon = aLength /\ bEndCommon = bLength)]
      s1 == PrecedingChanges(s0, L, aStartCommon, bStartCommon)
      s2 == Put(s1, formatCommon(nCommon, s1.aEnd, s1.bEnd,
                                 L.aLinesIn, L.bLinesUn, L.bLinesIn, L.options))
  IN  IF aStartCommon = 0 /\ bStartCommon = 0
      THEN StartPatch(s0, L, nCommon, aEndCommon, bEndCommon)
      ELSE IF s1.threw THEN s1
      ELSE IF IncludesAll(nCommon, s0.isAtEnd, L.options.contextLines)
      THEN IF s2.threw THEN s2
           ELSE [s2 EXCEPT !.aEnd = @ + nCommon, !.bEnd = @ + nCommon]
      ELSE EndPatch(s1, L, nCommon, aEndCommon, bEndCommon)

\* diffNoExpand after diff() returned, up to the remaining change lines
NoExpandRemaining(s, L) ==
  LET aLength == Len(L.aLinesUn.items)
      bLength == Len(L.bLinesUn.items)
      s1 == [s EXCEPT !.changeCounts = [a |-> @.a + (aLength - s.aEnd),
                                        b |-> @.b + (bLength - s.bEnd)]]
      s2 == Put(s1, formatDelete(s.aEnd, aLength, L.aLinesUn, L.aLinesIn, L.options))
      s3 == IF s2.threw THEN s2
            ELSE Put(s2, formatInsert(s.bEnd, bLength, L.bLinesUn, L.bLinesIn, L.options))
  IN  IF s.isAtEnd THEN s
      ELSE IF s3.threw THEN s3
      ELSE [s3 EXCEPT !.aEnd = aLength, !.bEnd = bLength]

\* bEnd is compared with the length of a
CoversAllALength(s, aLength, bLength) ==
  s.aStart = 0 /\ s.aEnd = aLength /\ s.bStart = 0 /\ s.bEnd = aLength

\* the patch covers both inputs: the placeholder is deleted
CoversAll(s, aLength, bLength) ==
  s.aStart = 0 /\ s.aEnd = aLength /\ s.bStart = 0 /\ s.bEnd = bLength

\* the last patch mark is written even when the patch covers both inputs
LastPatchMarkAlways(s, L) ==
  [s EXCEPT !.array[s.iPatchMark + 1] =
               createPatchMark(s.aStart, s.aEnd, s.bStart, s.bEnd)]

\* delete the placeholder line, or write the last patch mark
LastPatchMark(s, L) ==
  IF CoversAll(s, Len(L.aLinesUn.items), Len(L.bLinesUn.items))
  THEN [s EXCEPT !.array = Tail(@)]
  ELSE [s EXCEPT !.array[s.iPatchMark + 1] =
                    createPatchMark(s.aStart, s.aEnd, s.bStart, s.bEnd)]

NoExpandFinish(s, L) ==
  LET s1 == NoExpandRemaining(s, L)
  IN  IF s1.threw THEN s1 ELSE LastPatchMark(s1, L)

\* the callbacks of one diff() call, in order
RECURSIVE ExpandOver(_, _, _)
ExpandOver(s, L, rs) ==
  IF rs = <<>> \/ s.threw THEN s
  ELSE ExpandOver(ExpandFoundSubsequence(s, L, rs[1].nCommon, rs[1].aCommon, rs[1].bCommon),
                  L, Tail(rs))

\* what diffExpand returns for the line arrays and options of L
diffExpand(L) ==
  LET s1 == ExpandOver(ExpandInit, L, CommonRuns(L.aLinesUn.items, L.bLinesUn.items))
      s2 == IF s1.threw THEN s1 ELSE ExpandRemaining(s1, L)
  IN  IF s2.threw THEN [type |-> "TypeError"] ELSE Rendered(s2.changeCounts, s2.array)

\* -------------------------------------------------------------- the inputs
\* An edit script is a sequence of steps: "C" a line common to both texts,
\* "D" a line of a only, "I" a line of b only.
Scripts == UNION {[1..n -> {"C", "D", "I"}] : n \in 1..MaxScript}

\* two single-line changes with g common lines between them
GapScripts ==
  {<<"D", "I">> \o [k \in 1..g |-> "C"] \o <<"D", "I">> : g \in 0..MaxGap}

RECURSIVE JoinLines(_)
JoinLines(ls) ==
  IF ls = <<>> THEN <<>>
  ELSE IF Len(ls) = 1 THEN ls[1]
  ELSE ls[1] \o <<"\n">> \o JoinLines(Tail(ls))

RECURSIVE SideLines(_, _, _)
SideLines(script, own, ch) ==
  IF script = <<>> THEN <<>>
  ELSE (IF script[1] = "C" THEN <<<<"c">>>>
        ELSE IF script[1] = own THEN <<<<ch>>>> ELSE <<>>)
       \o SideLines(Tail(script), own, ch)

TextA(script) == JoinLines(SideLines(script, "D", "x"))

TextB(script) == JoinLines(SideLines(script, "I", "y"))

Foo == <<"f", "o", "o", "\n", "b", "a", "r", "\n", "b", "a", "z">>

FooBAR == <<"f", "o", "o", "\n", "B", "A", "R", "\n", "b", "a", "z">>

TextPairs ==
  {<<TextA(sc), TextB(sc)>> : sc \in Scripts \cup GapScripts} \cup {<<Foo, FooBAR>>}

\* every line of the text indented by the spaces of pad
RECURSIVE IndentLines(_, _)
IndentLines(ls, pad) ==
  IF ls = <<>> THEN <<>> ELSE <<pad \o ls[1]>> \o IndentLines(Tail(ls), pad)

Indent(text, pad) == JoinLines(IndentLines(Split(text), pad))

NoOriginal == [given |-> FALSE, a |-> <<>>, b |-> <<>>]

\* the original pairs a call is tried with: none; the texts themselves; the
\* texts indented, b deeper than a; a pair with one more line on side a; a
\* pair of equal texts
Originals(ta, tb) ==
  { NoOriginal,
    [given |-> TRUE, a |-> ta, b |-> tb],
    [given |-> TRUE, a |-> Indent(ta, <<" ", " ">>), b |-> Indent(tb, <<" ", " ", " ">>)],
    [given |-> TRUE, a |-> ta \o <<"\n", "z">>, b |-> tb],
    [given |-> TRUE, a |-> <<"c", "\n", "c", "\n", "c">>,
                     b |-> <<"c", "\n", "c", "\n", "c">>] }

\* the values of options.contextLines a call is tried with: the small ones, and
\* the larger of the two line counts
ContextChoices(ta, tb) ==
  (0..MaxContext) \cup {Max(Len(Split(ta)), Len(Split(tb)))}

NoArray == [ref |-> 0, items |-> <<>>]

NoResult == [type |-> "none"]

TypeError == [type |-> "TypeError"]

\* ------------------------------------------------------------ state machine
Init ==
  /\ pc = "call"
  /\ \E t \in TextPairs : a = t[1] /\ b = t[2]
  /\ \E e \in BOOLEAN, c \in ContextChoices(a, b) :
       options = [expand |-> e, contextLines |-> c, aIndicator |-> "-",
                  bIndicator |-> "+", commonIndicator |-> " "]
  /\ original \in Originals(a, b)
  /\ aLinesUn = NoArray /\ bLinesUn = NoArray
  /\ aLinesIn = NoArray /\ bLinesIn = NoArray
  /\ pending = <<>> /\ nCalls = 0
  /\ array = <<>> /\ iPatchMark = 0 /\ isAtEnd = FALSE
  /\ aStart = 0 /\ aEnd = 0 /\ bStart = 0 /\ bEnd = 0
  /\ changeCounts = [a |-> 0, b |-> 0]
  /\ threw = FALSE
  /\ result = NoResult
  /\ hlLine = <<>> /\ hlMode = "none" /\ hlOut = <<>>

SetClosure(s) ==
  /\ array' = s.array
  /\ iPatchMark' = s.iPatchMark
  /\ isAtEnd' = s.isAtEnd
  /\ aStart' = s.aStart /\ aEnd' = s.aEnd
  /\ bStart' = s.bStart /\ bEnd' = s.bEnd
  /\ changeCounts' = s.changeCounts
  /\ threw' = s.threw

\* the comparison inverted
SameTextInverted(ta, tb) == ta # tb

\* a === b
SameText(ta, tb) == ta = tb

\* if (a === b) return NO_DIFF_MESSAGE
ReturnNoDiff ==
  /\ pc = "call"
  /\ SameText(a, b)
  /\ pc' = "done"
  /\ result' = NO_DIFF_MESSAGE
  /\ UNCHANGED <<a, b, options, original, aLinesUn, bLinesUn, aLinesIn, bLinesIn,
                 pending, nCalls, array, iPatchMark, isAtEnd, aStart, aEnd,
                 bStart, bEnd, changeCounts, threw, hlVars>>

\* both sides must disagree, not either
InconsistentBoth(aUn, bUn, aIn, bIn) ==
  Len(aUn.items) # Len(aIn.items) /\ Len(bUn.items) # Len(bIn.items)

\* the line counts of the texts and of the original pair are inconsistent
Inconsistent(aUn, bUn, aIn, bIn) ==
  Len(aUn.items) # Len(aIn.items) \/ Len(bUn.items) # Len(bIn.items)

\* the four line arrays the entry point hands to the assembler
SplitLines(ta, tb, orig) ==
  LET aUn == [ref |-> 1, items |-> Split(ta)]
      bUn == [ref |-> 2, items |-> Split(tb)]
      aIn == IF orig.given THEN [ref |-> 3, items |-> Split(orig.a)] ELSE aUn
      bIn == IF orig.given THEN [ref |-> 4, items |-> Split(orig.b)] ELSE bUn
      fallBack == orig.given /\ Inconsistent(aUn, bUn, aIn, bIn)
  IN  [aLinesUn |-> IF fallBack THEN aIn ELSE aUn,
       bLinesUn |-> IF fallBack THEN bIn ELSE bUn,
       aLinesIn |-> aIn, bLinesIn |-> bIn]

\* the entry point splits the texts and calls an assembler, which calls diff()
CallAssembler ==
  /\ pc = "call"
  /\ ~SameText(a, b)
  /\ LET ls == SplitLines(a, b, original)
     IN  /\ aLinesUn' = ls.aLinesUn /\ bLinesUn' = ls.bLinesUn
         /\ aLinesIn' = ls.aLinesIn /\ bLinesIn' = ls.bLinesIn
         /\ pending' = CommonRuns(ls.aLinesUn.items, ls.bLinesUn.items)
  /\ SetClosure(IF options.expand THEN ExpandInit ELSE NoExpandInit)
  /\ pc' = "diff"
  /\ UNCHANGED <<a, b, options, original, nCalls, result, hlVars>>

\* the oracle reports the next common run to the assembler's foundSubsequence
FoundSubsequence ==
  /\ pc = "diff"
  /\ pending # <<>>
  /\ LET run == Head(pending)
         s == IF options.expand
              THEN ExpandFoundSubsequence(Closure, Lines, run.nCommon,
                                          run.aCommon, run.bCommon)
              ELSE NoExpandFoundSubsequence(Closure, Lines, run.nCommon,
                                            run.aCommon, run.bCommon)
     IN  /\ SetClosure(s)
         /\ pc' = IF s.threw THEN "done" ELSE "diff"
         /\ result' = IF s.threw THEN TypeError ELSE result
  /\ pending' = Tail(pending)
  /\ nCalls' = nCalls + 1
  /\ UNCHANGED <<a, b, options, original, aLinesUn, bLinesUn, aLinesIn, bLinesIn,
                 hlVars>>

\* diff() returned: diffExpand formats the remaining changes and returns
ExpandReturn ==
  /\ pc = "diff"
  /\ pending = <<>>
  /\ options.expand
  /\ LET s == ExpandRemaining(Closure, Lines)
     IN  /\ SetClosure(s)
         /\ result' = IF s.threw THEN TypeError ELSE Rendered(s.changeCounts, s.array)
  /\ pc' = "done"
  /\ UNCHANGED <<a, b, options, original, aLinesUn, bLinesUn, aLinesIn, bLinesIn,
                 pending, nCalls, hlVars>>

\* diff() returned: diffNoExpand formats the remaining changes, settles the
\* last patch mark and returns
NoExpandReturn ==
  /\ pc = "diff"
  /\ pending = <<>>
  /\ ~options.expand
  /\ LET s == NoExpandFinish(Closure, Lines)
     IN  /\ SetClosure(s)
         /\ result' = IF s.threw THEN TypeError ELSE Rendered(s.changeCounts, s.array)
  /\ pc' = "done"
  /\ UNCHANGED <<a, b, options, original, aLinesUn, bLinesUn, aLinesIn, bLinesIn,
                 pending, nCalls, hlVars>>

Next ==
  \/ ReturnNoDiff
  \/ CallAssembler
  \/ FoundSubsequence
  \/ ExpandReturn
  \/ NoExpandReturn

Spec == Init /\ [][Next]_vars

\* ---------------------------------------- the highlighters, on their own
Chars == {" ", "\t", "x"}

HlLines == UNION {[1..n -> Chars] : n \in 0..MaxLineLen}

InitHighlight ==
  /\ hlLine \in HlLines
  /\ hlMode = "none"
  /\ hlOut = <<>>
  /\ pc = "idle"
  /\ a = <<>> /\ b = <<>>
  /\ options = [expand |-> FALSE, contextLines |-> 0, aIndicator |-> "-",
                bIndicator |-> "+", commonIndicator |-> " "]
  /\ original = NoOriginal
  /\ aLinesUn = NoArray /\ bLinesUn = NoArray
  /\ aLinesIn = NoArray /\ bLinesIn = NoArray
  /\ pending = <<>> /\ nCalls = 0
  /\ array = <<>> /\ iPatchMark = 0 /\ isAtEnd = FALSE
  /\ aStart = 0 /\ aEnd = 0 /\ bStart = 0 /\ bEnd = 0
  /\ changeCounts = [a |-> 0, b |-> 0]
  /\ threw = FALSE
  /\ result = NoResult

\* highlightSpaces(line, bgColor), for the highlighter getHighlightSpaces chose
Highlight ==
  /\ hlMode = "none"
  /\ \E bothEdges \in BOOLEAN :
       /\ hlMode' = getHighlightSpaces(bothEdges)
       /\ hlOut' = ApplyHighlight(getHighlightSpaces(bothEdges), hlLine, "bgInverse")
  /\ UNCHANGED <<hlLine, callVars>>

NextHighlight == Highlight

SpecHighlight == InitHighlight /\ [][NextHighlight]_vars

\* ================================================================= claims
\* a completed call that rendered a diff
Done == pc = "done" /\ result.type = "diff"

Windowed == ~options.expand

LenA == Len(aLinesUn.items)

LenB == Len(bLinesUn.items)

\* the common runs the oracle reported in this call
Runs == CommonRuns(aLinesUn.items, bLinesUn.items)

IsChangeLine(l) == l.type \in {"delete", "insert"}

IsCommonAt(l, i, j) == l.type = "common" /\ l.aIndex = i /\ l.bIndex = j

\* position p of the output holds the common line (i, j)
CommonAt(p, i, j) == p \in 1..Len(array) /\ IsCommonAt(array[p], i, j)

ChangeAt(p) == p \in 1..Len(array) /\ IsChangeLine(array[p])

PatchAt(p) == p \in 1..Len(array) /\ array[p].type = "patch"

RunAtStart(r) == r.aCommon = 0 /\ r.bCommon = 0

RunAtEnd(r) == r.aCommon + r.nCommon = LenA /\ r.bCommon + r.nCommon = LenB

\* positions of the change lines that come right before run r in the inputs
PrecedingChangePositions(r) ==
  {p \in 1..Len(array) :
     \/ array[p].type = "insert" /\ array[p].bIndex = r.bCommon - 1
     \/ array[p].type = "delete" /\ array[p].aIndex = r.aCommon - 1}

\* the number of output lines that are common lines of run r
EmittedOf(r) ==
  Cardinality({p \in 1..Len(array) :
                 /\ array[p].type = "common"
                 /\ array[p].aIndex \in r.aCommon..(r.aCommon + r.nCommon - 1)})

\* run r is in the output in full, right after the change before it and, unless
\* it ends the inputs, right before the change after it
EmittedInFull(r, p0) ==
  /\ \A d \in 1..r.nCommon : CommonAt(p0 + d, r.aCommon + d - 1, r.bCommon + d - 1)
  /\ EmittedOf(r) = r.nCommon
  /\ IF RunAtEnd(r) THEN Len(array) = p0 + r.nCommon
     ELSE ChangeAt(p0 + r.nCommon + 1)

\* only the first c lines of run r close the window and, unless the run ends
\* the inputs, a patch mark and the last c lines open the next window
EmittedClipped(r, p0, c) ==
  /\ \A d \in 1..c : CommonAt(p0 + d, r.aCommon + d - 1, r.bCommon + d - 1)
  /\ IF RunAtEnd(r)
     THEN /\ Len(array) = p0 + c
          /\ EmittedOf(r) = c
     ELSE /\ PatchAt(p0 + c + 1)
          /\ \A d \in 1..c : CommonAt(p0 + c + 1 + d, r.aCommon + r.nCommon - c + d - 1,
                                      r.bCommon + r.nCommon - c + d - 1)
          /\ ChangeAt(p0 + 2 * c + 2)
          /\ EmittedOf(r) = 2 * c

\* C1: in windowed mode a common run of k lines that does not start both
\* inputs is emitted in full in the window of the change before it iff
\* k <= 2c (k <= c when it ends both inputs); otherwise its first c lines close
\* the window and, when it is not at the end, its last c lines open a new one.
C1_WindowingBoundary ==
  (Done /\ Windowed) =>
    \A q \in 1..Len(Runs) :
      LET r  == Runs[q]
          c  == options.contextLines
          ps == PrecedingChangePositions(r)
          p0 == CHOOSE p \in ps : \A m \in ps : m <= p
      IN  ~RunAtStart(r) =>
            /\ ps # {}
            /\ IF r.nCommon <= (IF RunAtEnd(r) THEN c ELSE 2 * c)
               THEN EmittedInFull(r, p0)
               ELSE EmittedClipped(r, p0, c) /\ EmittedOf(r) < r.nCommon

\* a windowed call with c >= 1 in which one run between changes is longer than
\* c and kept in full, and the run at the end is clipped
C1_Witness ==
  /\ Done /\ Windowed /\ options.contextLines >= 1
  /\ \E q \in 1..Len(Runs) :
       /\ ~RunAtStart(Runs[q]) /\ ~RunAtEnd(Runs[q])
       /\ Runs[q].nCommon > options.contextLines
       /\ EmittedOf(Runs[q]) = Runs[q].nCommon
  /\ \E q \in 1..Len(Runs) :
       /\ RunAtEnd(Runs[q]) /\ ~RunAtStart(Runs[q])
       /\ EmittedOf(Runs[q]) < Runs[q].nCommon

\* ---------------------------------------------------------------- windows
IsBodyLine(l) == l.type \in {"delete", "insert", "common"}

PatchPositions == {p \in 1..Len(array) : array[p].type = "patch"}

PlaceholderPositions == {p \in 1..Len(array) : array[p].type = "placeholder"}

\* a window is a maximal set of adjacent delete, insert and common lines
WindowStarts ==
  {p \in 1..Len(array) : IsBodyLine(array[p]) /\ (p = 1 \/ ~IsBodyLine(array[p - 1]))}

\* the positions of the window that starts at p
WindowAt(p) ==
  {q \in p..Len(array) : \A m \in p..q : IsBodyLine(array[m])}

CountIn(ps, t) == Cardinality({q \in ps : array[q].type = t})

\* both inputs have 12 lines: a changed line, 10 identical common lines, a
\* changed line; contextLines = 2
GapScenario ==
  /\ Windowed /\ options.contextLines = 2
  /\ LenA = 12 /\ LenB = 12
  /\ Runs = <<[nCommon |-> 10, aCommon |-> 1, bCommon |-> 1]>>
  /\ \A i \in 1..10 : aLinesUn.items[i + 1] = aLinesUn.items[2]

\* each window has at most 2*2+1 common lines and one single-line change
SmallWindows ==
  \A p \in WindowStarts :
    /\ CountIn(WindowAt(p), "common") <= 2 * 2 + 1
    /\ CountIn(WindowAt(p), "delete") = 1
    /\ CountIn(WindowAt(p), "insert") = 1

\* C2 as stated: in the gap scenario the output has exactly one patch mark,
\* between two small windows; and whenever the windowed output has two windows
\* there is one patch mark, between them, and no other.
C2_OnePatchMark ==
  (Done /\ Windowed) =>
    /\ GapScenario =>
         /\ Cardinality(PatchPositions) = 1
         /\ Cardinality(WindowStarts) = 2
         /\ \A p \in PatchPositions : ChangeAt(p - 1) \/ CommonAt(p - 1, 2, 2)
         /\ SmallWindows
    /\ Cardinality(WindowStarts) = 2 =>
         /\ Cardinality(PatchPositions) = 1
         /\ \A p \in PatchPositions : p > 1 /\ IsBodyLine(array[p - 1])

\* C2 amended: in the gap scenario the output has exactly two patch marks, one
\* right before each of two small windows (the first opens the output, the
\* second separates the windows); and whenever the windowed output has two
\* windows, each is right after a patch mark and there is no other patch mark.
C2_PatchMarkPerWindow ==
  (Done /\ Windowed) =>
    /\ GapScenario =>
         /\ Cardinality(PatchPositions) = 2
         /\ Cardinality(WindowStarts) = 2
         /\ SmallWindows
    /\ Cardinality(WindowStarts) = 2 =>
         /\ Cardinality(PatchPositions) = 2
         /\ PatchAt(1)
         /\ \A p \in WindowStarts : PatchAt(p - 1)

\* the gap scenario, completed
C2_Witness == Done /\ GapScenario /\ Cardinality(WindowStarts) = 2

\* the number of common lines of the inputs
RECURSIVE SumCommon(_)
SumCommon(rs) == IF rs = <<>> THEN 0 ELSE rs[1].nCommon + SumCommon(Tail(rs))

\* at least one common line is not in the output
OmitsCommon ==
  Cardinality({p \in 1..Len(array) : array[p].type = "common"}) < SumCommon(Runs)

\* C3: in windowed mode, when a common line is omitted, exactly one patch mark
\* is right before every window, the output begins with a patch mark and there
\* are as many patch marks as windows; no placeholder is left in the output.
C3_PatchMarkPrecedesEachWindow ==
  (Done /\ Windowed) =>
    /\ PlaceholderPositions = {}
    /\ OmitsCommon =>
         /\ PatchAt(1)
         /\ \A p \in WindowStarts : PatchAt(p - 1) /\ ~PatchAt(p - 2)
         /\ Cardinality(PatchPositions) = Cardinality(WindowStarts)

\* C4: windowed mode with contextLines = max(lenA, lenB) returns what expanded
\* mode returns for the same inputs: the same lines in the same order, the
\* same change counts, and no patch mark.
C4_FullContextEqualsExpanded ==
  (pc = "done" /\ result # NO_DIFF_MESSAGE /\ Windowed
     /\ options.contextLines = Max(LenA, LenB)) =>
    /\ result = diffExpand(Lines)
    /\ result.type = "diff"
    /\ PatchPositions = {} /\ PlaceholderPositions = {}

\* such a call with more context than the small values, several common lines
\* and changes on both sides
C4_Witness ==
  /\ Done /\ Windowed
  /\ options.contextLines = Max(LenA, LenB)
  /\ options.contextLines >= 4
  /\ SumCommon(Runs) >= 3 /\ Len(Runs) >= 2
  /\ changeCounts.a >= 1 /\ changeCounts.b >= 1

\* C5: when the window at the end of a windowed call spans both inputs, the
\* placeholder is deleted, the output has no patch mark and is the output of
\* expanded mode; foo/bar/baz against foo/BAR/baz with contextLines = 1 gives
\* common foo, delete bar, insert BAR, common baz and counts a = 1, b = 1.
C5_WholeInputWindow ==
  (Done /\ Windowed) =>
    /\ (aStart = 0 /\ aEnd = LenA /\ bStart = 0 /\ bEnd = LenB) =>
         /\ PatchPositions = {} /\ PlaceholderPositions = {}
         /\ result = diffExpand(Lines)
    /\ (a = Foo /\ b = FooBAR /\ options.contextLines = 1 /\ ~original.given) =>
         /\ Len(array) = 4
         /\ IsCommonAt(array[1], 0, 0) /\ array[1].text = <<" ", " ", "f", "o", "o">>
         /\ array[2].type = "delete" /\ array[2].aIndex = 1
         /\ array[2].text = <<"-", " ", "b", "a", "r">>
         /\ array[3].type = "insert" /\ array[3].bIndex = 1
         /\ array[3].text = <<"+", " ", "B", "A", "R">>
         /\ IsCommonAt(array[4], 2, 2) /\ array[4].text = <<" ", " ", "b", "a", "z">>
         /\ result.annotation = [a |-> 1, b |-> 1]

\* the foo/bar/baz call, completed
C5_Witness ==
  /\ Done /\ Windowed
  /\ a = Foo /\ b = FooBAR /\ options.contextLines = 1 /\ ~original.given
  /\ aStart = 0 /\ aEnd = LenA /\ bStart = 0 /\ bEnd = LenB

\* the number of output lines of one of the types ts with index i on a side
TimesA(ts, i) ==
  Cardinality({p \in 1..Len(array) : array[p].type \in ts /\ array[p].aIndex = i})

TimesB(ts, j) ==
  Cardinality({p \in 1..Len(array) : array[p].type \in ts /\ array[p].bIndex = j})

\* C6: expanded mode emits every index of side a exactly once, as a delete
\* line or in a common line, and every index of side b exactly once, as an
\* insert line or in a common line; the change counts are the line counts less
\* the number of common lines.
C6_ExpandedCoverage ==
  (Done /\ options.expand) =>
    /\ \A p \in 1..Len(array) : IsBodyLine(array[p])
    /\ \A i \in 0..(LenA - 1) : TimesA({"delete", "common"}, i) = 1
    /\ \A j \in 0..(LenB - 1) : TimesB({"insert", "common"}, j) = 1
    /\ Len(array) = LenA + LenB - SumCommon(Runs)
    /\ CountIn(1..Len(array), "common") = SumCommon(Runs)
    /\ result.annotation = [a |-> LenA - SumCommon(Runs), b |-> LenB - SumCommon(Runs)]

\* an expanded call with two common runs and changes on both sides
C6_Witness ==
  /\ Done /\ options.expand
  /\ Len(Runs) >= 2
  /\ changeCounts.a >= 1 /\ changeCounts.b >= 1

RECURSIVE IsSubsequence(_, _)
IsSubsequence(x, y) ==
  IF x = <<>> THEN TRUE
  ELSE IF y = <<>> THEN FALSE
  ELSE IF x[1] = y[1] THEN IsSubsequence(Tail(x), Tail(y))
  ELSE IsSubsequence(x, Tail(y))

\* C7: for every contextLines, windowed mode emits the delete and insert lines
\* of expanded mode, in the same order, and reports the same change counts;
\* its output without the patch marks is a subsequence of the expanded output.
C7_WindowedKeepsChanges ==
  (Done /\ Windowed) =>
    LET e == diffExpand(Lines)
    IN  /\ e.type = "diff"
        /\ SelectSeq(array, IsChangeLine) = SelectSeq(e.lines, IsChangeLine)
        /\ result.annotation = e.annotation
        /\ IsSubsequence(SelectSeq(array, IsBodyLine), e.lines)
        /\ Len(SelectSeq(array, IsBodyLine)) + Cardinality(PatchPositions) = Len(array)

\* a windowed call that omits common lines around changes on both sides
C7_Witness ==
  /\ Done /\ Windowed /\ OmitsCommon
  /\ Cardinality(PatchPositions) >= 2
  /\ changeCounts.a >= 1 /\ changeCounts.b >= 1

\* C8: for equal texts the call returns the no-difference sentinel, whatever
\* the options and the original pair, never calls the oracle and emits no line.
C8_IdenticalTexts ==
  (a = b) =>
    /\ pc \in {"call", "done"}
    /\ pc = "done" => result = NO_DIFF_MESSAGE
    /\ array = <<>> /\ nCalls = 0 /\ pending = <<>>
    /\ aLinesUn = NoArray /\ bLinesUn = NoArray

\* a call with equal texts and an original pair has returned
C8_Witness ==
  pc = "done" /\ a = b /\ original.given /\ result = NO_DIFF_MESSAGE

\* C9: when the line counts of the texts and of the original pair disagree on
\* either side, both sides use the lines of the original pair for comparison
\* and display; so in every call that reaches an assembler the unnormalized and
\* the indentation-preserving arrays of a side are equally long and no read of
\* a line array is out of bounds.
C9_FallBack ==
  (pc = "diff" \/ (pc = "done" /\ result # NO_DIFF_MESSAGE)) =>
    /\ Len(aLinesUn.items) = Len(aLinesIn.items)
    /\ Len(bLinesUn.items) = Len(bLinesIn.items)
    /\ ~threw /\ result # TypeError
    /\ (original.given /\ (\/ Len(Split(a)) # Len(Split(original.a))
                           \/ Len(Split(b)) # Len(Split(original.b)))) =>
         /\ aLinesUn = aLinesIn /\ bLinesUn = bLinesIn
         /\ aLinesIn.items = Split(original.a)
         /\ bLinesIn.items = Split(original.b)

\* a call whose original pair disagrees on side a only has rendered a diff
C9_Witness ==
  /\ Done /\ original.given
  /\ Len(Split(a)) # Len(Split(original.a))
  /\ Len(Split(b)) = Len(Split(original.b))
  /\ Len(array) >= 3

\* the number of whitespace characters the line begins with
LeadingSpaces(line) ==
  Cardinality({k \in 1..Len(line) : \A m \in 1..k : IsSpace(line[m])})

\* the number of whitespace characters the line ends with
TrailingSpaces(line) ==
  Cardinality({k \in 1..Len(line) : \A m \in (Len(line) - k + 1)..Len(line) : IsSpace(line[m])})

CountOf(s, ch) == Cardinality({k \in 1..Len(s) : s[k] = ch})

\* C10: highlightLeadingTrailingSpaces decorates only the 3rd of exactly 3
\* leading spaces before a non-whitespace character and none of exactly 4; both
\* highlighters decorate the whole trailing whitespace run as one unit, and
\* highlightTrailingSpaces returns a line without trailing whitespace unchanged.
C10_WhitespaceAsymmetry ==
  (hlMode # "none") =>
    LET n == Len(hlLine)
        t == TrailingSpaces(hlLine)
    IN  /\ (hlMode = "highlightLeadingTrailingSpaces"
              /\ LeadingSpaces(hlLine) = 3 /\ n > 3) =>
             /\ SubSeq(hlOut, 1, 6) = <<hlLine[1], hlLine[2], "bgInverse", hlLine[3],
                                        "/bg", hlLine[4]>>
             /\ CountOf(hlOut, "bgInverse") = 1 + (IF t > 0 THEN 1 ELSE 0)
        /\ (hlMode = "highlightLeadingTrailingSpaces"
              /\ LeadingSpaces(hlLine) = 4 /\ n > 4) =>
             /\ SubSeq(hlOut, 1, 5) = SubSeq(hlLine, 1, 5)
             /\ CountOf(hlOut, "bgInverse") = (IF t > 0 THEN 1 ELSE 0)
        /\ (t > 0) =>
             /\ Len(hlOut) >= t + 2
             /\ SubSeq(hlOut, Len(hlOut) - t - 1, Len(hlOut))
                  = <<"bgInverse">> \o SubSeq(hlLine, n - t + 1, n) \o <<"/bg">>
        /\ (hlMode = "highlightTrailingSpaces" /\ t = 0) => hlOut = hlLine

\* a line with 3 leading spaces, a letter and trailing whitespace, highlighted
\* at both edges
C10_Witness ==
  /\ hlMode = "highlightLeadingTrailingSpaces"
  /\ LeadingSpaces(hlLine) = 3 /\ Len(hlLine) > 3
  /\ TrailingSpaces(hlLine) > 0
  /\ Len(hlOut) = Len(hlLine) + 4

\* the positions of the output lines that show a line of side a, of side b
APositions == {p \in 1..Len(array) : array[p].type \in {"delete", "common"}}

BPositions == {p \in 1..Len(array) : array[p].type \in {"insert", "common"}}

\* C11: in both modes, at every step, the delete lines of a gap come before its
\* insert lines and both before the common lines of the run that follows: an
\* insert line is before a delete line only if a common run lies between them
\* in the inputs, and along the output the indices of side a (delete, common)
\* and of side b (insert, common) are strictly increasing.
C11_EmissionOrder ==
  (pc \in {"diff", "done"}) =>
    /\ \A p, q \in APositions : p < q => array[p].aIndex < array[q].aIndex
    /\ \A p, q \in BPositions : p < q => array[p].bIndex < array[q].bIndex
    /\ \A p, q \in 1..Len(array) :
         (p < q /\ array[p].type = "insert" /\ array[q].type = "delete") =>
           \E k \in 1..Len(Runs) :
             /\ array[p].bIndex < Runs[k].bCommon
             /\ Runs[k].aCommon + Runs[k].nCommon <= array[q].aIndex

\* a windowed call with delete and insert lines before a common run and after
\* the last one
C11_Witness ==
  /\ Done /\ Windowed /\ Len(Runs) >= 1
  /\ \E p, q \in 1..Len(array) :
       /\ array[p].type = "delete" /\ array[q].type = "insert"
       /\ array[p].aIndex < Runs[1].aCommon /\ array[q].bIndex < Runs[1].bCommon
  /\ \E p, q \in 1..Len(array) :
       /\ array[p].type = "delete" /\ array[q].type = "insert"
       /\ array[p].aIndex >= Runs[Len(Runs)].aCommon + Runs[Len(Runs)].nCommon
       /\ array[q].bIndex >= Runs[Len(Runs)].bCommon + Runs[Len(Runs)].nCommon

\* the positions of the window that follows the patch mark at position p
WindowAfter(p) ==
  {q \in (p + 1)..Len(array) : \A m \in (p + 1)..q : IsBodyLine(array[m])}

\* C12: in windowed mode every patch mark carries the boundaries of the lines
\* of its window: the delete and common lines of the window are the indices
\* aStart..aEnd-1 of side a, each once, and its insert and common lines the
\* indices bStart..bEnd-1 of side b; at every step 0 <= aStart <= aEnd <= lenA
\* and 0 <= bStart <= bEnd <= lenB; and of two windows the later one starts
\* strictly after the end of the earlier one on both sides.
C12_PatchMarkBoundaries ==
  (pc \in {"diff", "done"} /\ Windowed /\ ~threw) =>
    /\ 0 <= aStart /\ aStart <= aEnd /\ aEnd <= LenA
    /\ 0 <= bStart /\ bStart <= bEnd /\ bEnd <= LenB
    /\ \A p \in PatchPositions :
         LET m  == array[p]
             wa == WindowAfter(p) \cap APositions
             wb == WindowAfter(p) \cap BPositions
         IN  /\ 0 <= m.aStart /\ m.aStart <= m.aEnd /\ m.aEnd <= LenA
             /\ 0 <= m.bStart /\ m.bStart <= m.bEnd /\ m.bEnd <= LenB
             /\ {array[q].aIndex : q \in wa} = m.aStart..(m.aEnd - 1)
             /\ Cardinality(wa) = m.aEnd - m.aStart
             /\ {array[q].bIndex : q \in wb} = m.bStart..(m.bEnd - 1)
             /\ Cardinality(wb) = m.bEnd - m.bStart
    /\ \A p, q \in PatchPositions :
         p < q => /\ array[q].aStart > array[p].aEnd
                  /\ array[q].bStart > array[p].bEnd
    /\ \A p \in PatchPositions :
         PlaceholderPositions # {} => (aStart > array[p].aEnd /\ bStart > array[p].bEnd)

\* a windowed call that ended with two patch marks, each before a window with
\* context lines
C12_Witness ==
  /\ Done /\ Windowed /\ options.contextLines >= 1
  /\ Cardinality(PatchPositions) = 2
  /\ \A p \in PatchPositions : array[p].aEnd - array[p].aStart >= 2

ChangePositions == {p \in 1..Len(array) : IsChangeLine(array[p])}

FirstChange == CHOOSE p \in ChangePositions : \A q \in ChangePositions : p <= q

LastChange == CHOOSE p \in ChangePositions : \A q \in ChangePositions : q <= p

\* positions of the common lines before the first change line of the output
LeadingContext ==
  {p \in 1..Len(array) : array[p].type = "common" /\ p < FirstChange}

\* positions of the common lines after the last change line of the output
TrailingContext ==
  {p \in 1..Len(array) : array[p].type = "common" /\ p > LastChange}

\* C13: in windowed mode with contextLines = c, when the first common run
\* starts at index 0 on both sides the lines of that run in the output are
\* exactly its last min(c, count) lines, and the common lines before the first
\* change line of the output are those lines, so at most c of them; when the last common run ends both inputs the common
\* lines after the last change line are lines of that run and at most c; with
\* c = 0 no common line comes before the first or after the last change.
C13_EdgeContextClipped ==
  (Done /\ Windowed /\ Len(Runs) >= 1) =>
    LET c     == options.contextLines
        first == Runs[1]
        last  == Runs[Len(Runs)]
        k     == Min(c, first.nCommon)
        kEnd  == Min(c, last.nCommon)
    IN
    /\ RunAtStart(first) =>
         {array[p].aIndex : p \in {q \in 1..Len(array) :
                                     /\ array[q].type = "common"
                                     /\ array[q].aIndex < first.nCommon}}
           = (first.nCommon - k)..(first.nCommon - 1)
    /\ (ChangePositions # {}) =>
        /\ RunAtStart(first) =>
             /\ Cardinality(LeadingContext) = k
             /\ {array[p].aIndex : p \in LeadingContext}
                  = (first.nCommon - k)..(first.nCommon - 1)
             /\ {array[p].bIndex : p \in LeadingContext}
                  = (first.nCommon - k)..(first.nCommon - 1)
             /\ Cardinality(LeadingContext) <= c
        /\ RunAtEnd(last) =>
             /\ Cardinality(TrailingContext) = kEnd
             /\ {array[p].aIndex : p \in TrailingContext}
                  = last.aCommon..(last.aCommon + kEnd - 1)
             /\ Cardinality(TrailingContext) <= c
        /\ (c = 0) => (LeadingContext = {} /\ TrailingContext = {})

\* the inputs begin and end with common runs longer than contextLines >= 1,
\* with a change between them
C13_Witness ==
  /\ Done /\ Windowed /\ options.contextLines >= 1
  /\ ChangePositions # {} /\ Len(Runs) >= 2
  /\ RunAtStart(Runs[1]) /\ Runs[1].nCommon > options.contextLines
  /\ RunAtEnd(Runs[Len(Runs)]) /\ Runs[Len(Runs)].nCommon > options.contextLines
  /\ LeadingContext # {} /\ TrailingContext # {}

\* the string without the decoration markers
StripDecoration(s) == SelectSeq(s, LAMBDA ch : ch \notin {"bgInverse", "/bg"})

\* C14: highlightLeadingTrailingSpaces, on a line with an odd number n >= 1 of
\* leading whitespace characters followed by a non-whitespace character, wraps
\* only the n-th leading whitespace character and leaves the n-1 before it in
\* place, so that the result without its decoration markers is the line itself,
\* for every n including n >= 5.
C14_OddLeadingRoundTrip ==
  LET n == LeadingSpaces(hlLine)
  IN  (hlMode = "highlightLeadingTrailingSpaces" /\ n % 2 = 1 /\ Len(hlLine) > n) =>
        /\ StripDecoration(hlOut) = hlLine
        /\ Len(hlOut) >= n + 2
        /\ SubSeq(hlOut, 1, n + 2)
             = SubSeq(hlLine, 1, n - 1) \o <<"bgInverse", hlLine[n], "/bg">>

\* the same round trip for lines with 1 or 3 leading whitespace characters
OddLeadingUpTo3RoundTrip ==
  LET n == LeadingSpaces(hlLine)
  IN  (hlMode = "highlightLeadingTrailingSpaces" /\ n \in {1, 3} /\ Len(hlLine) > n) =>
        /\ StripDecoration(hlOut) = hlLine
        /\ SubSeq(hlOut, 1, n + 2)
             = SubSeq(hlLine, 1, n - 1) \o <<"bgInverse", hlLine[n], "/bg">>

\* the index on side a, and on side b, up to which the assembler has formatted
\* the inputs: the next formatDelete and formatInsert start there
FormattedA == IF options.expand THEN aStart ELSE aEnd

FormattedB == IF options.expand THEN bStart ELSE bEnd

\* C15: the core is total. With contextLines >= 0 and the oracle's runs
\* increasing and inside both inputs, every formatDelete/formatInsert call has
\* start <= end <= length and every formatCommon call a count >= 0 and a range
\* inside both sides: no formatter reads past an array or runs past its bound
\* (threw stays false), the oracle's calls are used up one by one, and the call
\* returns the rendered diff or the no-difference sentinel, never an error.
C15_Total ==
  /\ ~threw
  /\ result # TypeError
  /\ (pc = "done") => result.type \in {"diff", "NO_DIFF_MESSAGE"}
  /\ (pc = "diff") =>
       /\ options.contextLines >= 0
       /\ Len(aLinesIn.items) = LenA /\ Len(bLinesIn.items) = LenB
       /\ 0 <= FormattedA /\ FormattedA <= LenA
       /\ 0 <= FormattedB /\ FormattedB <= LenB
       /\ nCalls + Len(pending) = Len(Runs)
       /\ (pending # <<>>) =>
            LET run == Head(pending)
            IN  /\ run.nCommon >= 0
                /\ FormattedA <= run.aCommon /\ run.aCommon + run.nCommon <= LenA
                /\ FormattedB <= run.bCommon /\ run.bCommon + run.nCommon <= LenB

\* a windowed call returned a diff after two runs, the first one at the start
\* of the inputs and shorter than contextLines
C15_Witness ==
  /\ Done /\ Windowed /\ ~threw
  /\ nCalls >= 2 /\ pending = <<>>
  /\ RunAtStart(Runs[1]) /\ Runs[1].nCommon < options.contextLines
  /\ ChangePositions # {}

\* the line at position p is at most c positions away from a change line
NearChange(p, c) ==
  \E q \in ChangePositions : (IF p < q THEN q - p ELSE p - q) <= c

\* C16: in windowed mode with contextLines = c every common line of the output
\* is context for a change: it lies at most c line positions away from some
\* delete or insert line of the output, in every call of the entry point, also
\* when an original pair is supplied and the fallback is taken.
C16_CommonIsContext ==
  (Done /\ Windowed) =>
    \A p \in 1..Len(array) :
      array[p].type = "common" => NearChange(p, options.contextLines)

\* the same property for the calls whose compared line arrays differ
CommonIsContextWhenChanged ==
  (Done /\ Windowed /\ aLinesUn.items # bLinesUn.items) =>
    /\ ChangePositions # {}
    /\ \A p \in 1..Len(array) :
         array[p].type = "common" => NearChange(p, options.contextLines)

\* C17: whenever the entry point does not return the no-difference sentinel
\* (a # b), the rendered diff reports at least one change: the change counts
\* are not both zero and the output has at least one delete or insert line, in
\* both modes and whether or not an original pair is supplied.
C17_DiffHasChange ==
  (pc = "done" /\ a # b) =>
    /\ result.type = "diff"
    /\ result.annotation.a + result.annotation.b > 0
    /\ \E p \in 1..Len(result.lines) : IsChangeLine(result.lines[p])

\* the same property for the calls whose compared line arrays differ
DiffHasChangeWhenChanged ==
  (pc = "done" /\ a # b /\ aLinesUn.items # bLinesUn.items) =>
    /\ result.type = "diff"
    /\ result.annotation.a + result.annotation.b > 0
    /\ \E p \in 1..Len(result.lines) : IsChangeLine(result.lines[p])

\* the compared line arrays are equal only after the fallback
EqualOnlyAfterFallBack ==
  (pc \in {"diff", "done"} /\ a # b /\ aLinesUn.items = bLinesUn.items) =>
    /\ original.given
    /\ aLinesUn.ref = aLinesIn.ref /\ bLinesUn.ref = bLinesIn.ref

\* the positions of the delete, insert and common lines of the output
BodyPositions == {p \in 1..Len(array) : IsBodyLine(array[p])}

\* the highlighter the line at position p was formatted with is the one for
\* both edges iff bothEdges
HighlightedAs(p, bothEdges) ==
  array[p].highlight = (IF bothEdges THEN "highlightLeadingTrailingSpaces"
                                     ELSE "highlightTrailingSpaces")

\* the entry point took the fallback to the lines of the original pair
FallBackTaken ==
  /\ original.given
  /\ \/ Len(Split(a)) # Len(Split(original.a))
     \/ Len(Split(b)) # Len(Split(original.b))

\* C18 as stated: a delete line is highlighted at both edges iff the lines of
\* aLinesUn and aLinesIn differ, an insert or common line iff the lines of
\* bLinesUn and bLinesIn differ, and at the trailing edge only otherwise: when
\* no original pair is supplied, when the fallback is taken, and when the
\* original text has the same lines as the compared text.
C18_ModeByContent ==
  (pc \in {"diff", "done"} /\ ~threw) =>
    \A p \in BodyPositions :
      IF array[p].type = "delete"
      THEN HighlightedAs(p, aLinesUn.items # aLinesIn.items)
      ELSE HighlightedAs(p, bLinesUn.items # bLinesIn.items)

\* C18: a delete line is highlighted at both edges iff aLinesUn and aLinesIn
\* are distinct arrays (aLinesUn !== aLinesIn), an insert or common line iff
\* bLinesUn and bLinesIn are distinct arrays, that is iff an original pair is
\* supplied and the fallback is not taken, whatever the lines are; the lines
\* are highlighted at the trailing edge only when no original pair is supplied
\* and when the fallback is taken.
C18_ModeByIdentity ==
  (pc \in {"diff", "done"} /\ a # b /\ ~threw) =>
    /\ \A p \in BodyPositions :
         /\ IF array[p].type = "delete"
            THEN HighlightedAs(p, aLinesUn.ref # aLinesIn.ref)
            ELSE HighlightedAs(p, bLinesUn.ref # bLinesIn.ref)
         /\ HighlightedAs(p, original.given /\ ~FallBackTaken)
    /\ (aLinesUn.ref # aLinesIn.ref) = (original.given /\ ~FallBackTaken)
    /\ (bLinesUn.ref # bLinesIn.ref) = (original.given /\ ~FallBackTaken)

\* the original pair is the pair of compared texts, and the output has a
\* delete, an insert and a common line, all highlighted at both edges
C18_Witness ==
  /\ Done /\ original.given /\ original.a = a /\ original.b = b
  /\ aLinesUn.items = aLinesIn.items /\ bLinesUn.items = bLinesIn.items
  /\ \A t \in {"delete", "insert", "common"} :
       \E p \in BodyPositions :
         array[p].type = t /\ array[p].highlight = "highlightLeadingTrailingSpaces"

====
